---- MODULE Spec2Model ----
(***************************************************************************)
(* Model of the Fruit Catcher simulation engine (js/gameEngine.js, the     *)
(* lives-based GameEngine class) together with the animation-frame loop    *)
(* that drives it.                                                         *)
(*                                                                         *)
(* Number representation (JavaScript doubles are modelled by exact         *)
(* fixed-point integers):                                                  *)
(*   horizontal ratios (basketX, xRatio, basketWidthRatio) : 1/PosScale    *)
(*   vertical positions (item.y)                           : 1/YScale px   *)
(*   speeds (baseSpeed, item.speed)                        : 1/YScale px/s *)
(*   elapsed time of a frame (deltaTime)                   : ticks of      *)
(*                                       1/TicksPerSec second              *)
(*   spawnTimer, spawnInterval                             : milliseconds  *)
(*   Math.random() results                                 : hundredths    *)
(***************************************************************************)
EXTENDS Integers, Sequences, FiniteSets

VARIABLES
  score,             \* this.score
  level,             \* this.level
  lives,             \* this.lives
  items,             \* this.items, oldest first
  isGameActive,      \* this.isGameActive
  spawnTimer,        \* this.spawnTimer (ms)
  baseSpeed,         \* this.baseSpeed
  totalLanes,        \* this.totalLanes
  basketWidthRatio,  \* this.basketWidthRatio
  basketX,           \* this.basketX
  pendingFrames,     \* animation-frame callbacks scheduled by gameLoop and not yet run
  op,                \* the operation that produced the current state
  calls,             \* what the last operation did, in order: item events and callback invocations
  endCount,          \* number of onGameEnd invocations since the last start()
  missedGood,        \* number of apples/grapes missed since the last start()
  bombsCollected,    \* number of bombs collected since the last start()
  input,             \* the argument of the last operation: x, deltaTime or points (0 if none)
  shown,             \* the (score, level, lives) last delivered to onScoreChange
  result,            \* what the last call of checkCollision returned
  timeLimit,         \* this.timeLimit of the timer-based GameEngine (ticks)
  basketPosition,    \* this.basketPosition of the timer-based GameEngine
  startBtnDisabled,  \* startBtn.disabled
  stopBtnDisabled,   \* stopBtn.disabled
  keys,              \* keys of main.js: which arrow keys are held
  kbFrames           \* animation-frame callbacks scheduled by loopKeyboard and not yet run

vars == << score, level, lives, items, isGameActive, spawnTimer, baseSpeed,
           totalLanes, basketWidthRatio, basketX, pendingFrames, op, calls,
           endCount, missedGood, bombsCollected, input, shown, result,
           timeLimit, basketPosition, startBtnDisabled, stopBtnDisabled,
           keys, kbFrames >>

engineVars == << score, level, lives, items, isGameActive, spawnTimer, baseSpeed,
                 totalLanes, basketWidthRatio, basketX >>

(* The state of the hosts and of the timer-based engine, which the methods
   of the lives-based engine never touch *)
hostVars == << result, timeLimit, basketPosition, startBtnDisabled, stopBtnDisabled,
               keys, kbFrames >>

----------------------------------------------------------------------------
(* Units *)

PosScale == 1200
YScale == 10000
TicksPerSec == 5

(* Program constants *)

spawnInterval == 1500
canvasHeight == 600 * YScale
InitialLives == 3
InitialBaseSpeed == 150 * YScale
InitialLanes == 3
InitialBasketWidth == PosScale \div 5
MinBasketWidth == PosScale \div 10
InitialBasketX == PosScale \div 2
itemHalfWidth == (4 * PosScale) \div 100
SpawnY == -50 * YScale
LevelThreshold == 1000
ApplePoints == 100
GrapePoints == 300

(* Bounds of the model *)

MaxPlayScore == 1100
MaxApiPlayScore == 200
MaxScore == 3200
MaxChains == 2
MaxEnds == 2

(* Inputs *)

DeltaTicks == {0, 5, 22}
LaneRands == {50, 99}
TypeRands == {60, 61, 91}
XInputs == {-60, 600, 1260}
PointInputs == {100, 300, 700, 2100}
GamePoints == {ApplePoints, GrapePoints}

----------------------------------------------------------------------------
(* Helpers *)

Max(a, b) == IF a >= b THEN a ELSE b
Min(a, b) == IF a <= b THEN a ELSE b
Abs(a) == IF a >= 0 THEN a ELSE -a

(* splice replaced by swap-with-last removal *)
RemoveAt_SwapLast(s, i) ==
  IF i = Len(s) THEN SubSeq(s, 1, Len(s) - 1)
  ELSE SubSeq([s EXCEPT ![i] = s[Len(s)]], 1, Len(s) - 1)

RemoveAt(s, i) == SubSeq(s, 1, i - 1) \o SubSeq(s, i + 1, Len(s))

(* The engine's fields as one record, with the log of what the running
   operation has done so far. *)
Engine ==
  [ score |-> score, level |-> level, lives |-> lives, items |-> items,
    isGameActive |-> isGameActive, spawnTimer |-> spawnTimer,
    baseSpeed |-> baseSpeed, totalLanes |-> totalLanes,
    basketWidthRatio |-> basketWidthRatio, basketX |-> basketX,
    calls |-> << >> ]

Event(e, name, i, type, y) ==
  [ ev |-> name, i |-> i, type |-> type, y |-> y,
    score |-> e.score, level |-> e.level, lives |-> e.lives ]

Log(e, name, i, type, y) ==
  [e EXCEPT !.calls = Append(@, Event(e, name, i, type, y))]

----------------------------------------------------------------------------
(* The methods of GameEngine, as functions from engine record to engine
   record. *)

updateScoreUI(e) == Log(e, "onScoreChange", 0, "-", 0)

stop(e) == Log([e EXCEPT !.isGameActive = FALSE], "onGameEnd", 0, "-", 0)

(* addScore raising the level by one instead of recomputing it *)
addScore_LevelPlusOne(e, points) ==
  LET e1 == [e EXCEPT !.score = @ + points]
      newLevel == (e1.score \div LevelThreshold) + 1
      e2 == IF newLevel > e1.level
              THEN [e1 EXCEPT
                      !.level = @ + 1,
                      !.baseSpeed = (@ * 11) \div 10,
                      !.totalLanes = IF (e1.level + 1) % 2 = 1 THEN @ + 1 ELSE @,
                      !.basketWidthRatio =
                          Max(MinBasketWidth,
                              InitialBasketWidth - e1.level * ((2 * PosScale) \div 100))]
              ELSE e1
  IN updateScoreUI(e2)

(* addScore shrinking the basket without the floor of 0.1 *)
addScore_NoFloor(e, points) ==
  LET e1 == [e EXCEPT !.score = @ + points]
      newLevel == (e1.score \div LevelThreshold) + 1
      e2 == IF newLevel > e1.level
              THEN [e1 EXCEPT
                      !.level = newLevel,
                      !.baseSpeed = (@ * 11) \div 10,
                      !.totalLanes = IF newLevel % 2 = 1 THEN @ + 1 ELSE @,
                      !.basketWidthRatio =
                          InitialBasketWidth - (newLevel - 1) * ((2 * PosScale) \div 100)]
              ELSE e1
  IN updateScoreUI(e2)

addScore(e, points) ==
  LET e1 == [e EXCEPT !.score = @ + points]
      newLevel == (e1.score \div LevelThreshold) + 1
      e2 == IF newLevel > e1.level
              THEN [e1 EXCEPT
                      !.level = newLevel,
                      !.baseSpeed = (@ * 11) \div 10,
                      !.totalLanes = IF newLevel % 2 = 1 THEN @ + 1 ELSE @,
                      !.basketWidthRatio =
                          Max(MinBasketWidth,
                              InitialBasketWidth - (newLevel - 1) * ((2 * PosScale) \div 100))]
              ELSE e1
  IN updateScoreUI(e2)

(* loseLife taking two lives per miss *)
loseLife_TwoLives(e) ==
  LET e1 == updateScoreUI([e EXCEPT !.lives = @ - 2])
  IN IF e1.lives <= 0 THEN stop(e1) ELSE e1

(* loseLife stopping only below zero *)
loseLife_StopBelowZero(e) ==
  LET e1 == updateScoreUI([e EXCEPT !.lives = @ - 1])
  IN IF e1.lives < 0 THEN stop(e1) ELSE e1

(* loseLife ending the run on every miss *)
loseLife_AlwaysStop(e) ==
  stop(updateScoreUI([e EXCEPT !.lives = @ - 1]))

(* loseLife not reporting the new lives *)
loseLife_NoUI(e) ==
  LET e1 == [e EXCEPT !.lives = @ - 1]
  IN IF e1.lives <= 0 THEN stop(e1) ELSE e1

loseLife(e) ==
  LET e1 == updateScoreUI([e EXCEPT !.lives = @ - 1])
  IN IF e1.lives <= 0 THEN stop(e1) ELSE e1

(* a collected bomb ending the run before reporting lives = 0 *)
handleItemCollection_StopFirst(e, item) ==
  IF item.type = "bomb"
    THEN updateScoreUI(stop([e EXCEPT !.lives = 0]))
    ELSE IF item.type = "apple" THEN addScore(e, ApplePoints)
    ELSE IF item.type = "grape" THEN addScore(e, GrapePoints)
    ELSE e

(* a collected bomb also costing points *)
handleItemCollection_BombPenalty(e, item) ==
  IF item.type = "bomb"
    THEN stop(updateScoreUI([e EXCEPT !.lives = 0, !.score = @ - ApplePoints]))
    ELSE IF item.type = "apple" THEN addScore(e, ApplePoints)
    ELSE IF item.type = "grape" THEN addScore(e, GrapePoints)
    ELSE e

handleItemCollection(e, item) ==
  IF item.type = "bomb"
    THEN stop(updateScoreUI([e EXCEPT !.lives = 0]))
    ELSE IF item.type = "apple" THEN addScore(e, ApplePoints)
    ELSE IF item.type = "grape" THEN addScore(e, GrapePoints)
    ELSE e

(* checkCollision counting a touch of the edges as a hit *)
checkCollision_Inclusive(e, item) ==
  LET basketHalfWidth == e.basketWidthRatio \div 2
      dist == Abs(e.basketX - item.xRatio)
  IN dist <= basketHalfWidth + itemHalfWidth

checkCollision(e, item) ==
  LET basketHalfWidth == e.basketWidthRatio \div 2
      dist == Abs(e.basketX - item.xRatio)
  IN dist < basketHalfWidth + itemHalfWidth

(* Math.floor(Math.random() * totalLanes), rand in hundredths *)
LaneOf(rand, lanes) == (rand * lanes) \div 100

TypeOf(rand) ==
  IF rand > 90 THEN "bomb" ELSE IF rand > 60 THEN "grape" ELSE "apple"

(* spawnItem placing the item on the initial three-lane grid *)
spawnItem_ThreeLaneGrid(e, randLane, randType) ==
  LET laneIndex == LaneOf(randLane, e.totalLanes)
      laneCenter == ((2 * laneIndex + 1) * PosScale) \div (2 * InitialLanes)
      item == [ laneIndex |-> laneIndex,
                xRatio |-> laneCenter,
                y |-> SpawnY,
                type |-> TypeOf(randType),
                speed |-> (e.baseSpeed * (100 + (e.level - 1) * 15)) \div 100 ]
  IN Log([e EXCEPT !.items = Append(@, item)], "spawn", Len(e.items) + 1, item.type, item.y)

spawnItem(e, randLane, randType) ==
  LET laneIndex == LaneOf(randLane, e.totalLanes)
      laneCenter == ((2 * laneIndex + 1) * PosScale) \div (2 * e.totalLanes)
      item == [ laneIndex |-> laneIndex,
                xRatio |-> laneCenter,
                y |-> SpawnY,
                type |-> TypeOf(randType),
                speed |-> (e.baseSpeed * (100 + (e.level - 1) * 15)) \div 100 ]
  IN Log([e EXCEPT !.items = Append(@, item)], "spawn", Len(e.items) + 1, item.type, item.y)

(* The loop body without the continue after a collection: a collected item
   below the bottom edge is also handled as a miss. *)
ResolveItem_NoContinue(e, i, dt) ==
  LET moved == [e.items[i] EXCEPT !.y = @ + (e.items[i].speed * dt) \div TicksPerSec]
      e1 == [e EXCEPT !.items[i] = moved]
      inZone == moved.y >= canvasHeight - 50 * YScale /\ moved.y < canvasHeight + 20 * YScale
      e2 == IF inZone /\ checkCollision(e1, moved)
              THEN [handleItemCollection(Log(e1, "collect", i, moved.type, moved.y), moved)
                      EXCEPT !.items = RemoveAt(@, i)]
              ELSE e1
  IN IF moved.y > canvasHeight
       THEN LET e3 == Log(e2, "miss", i, moved.type, moved.y)
                e4 == IF moved.type # "bomb" THEN loseLife(e3) ELSE e3
            IN [e4 EXCEPT !.items = IF i <= Len(@) THEN RemoveAt(@, i) ELSE @]
       ELSE e2

(* The loop body with a collection zone that has no far edge *)
ResolveItem_NoUpperZone(e, i, dt) ==
  LET moved == [e.items[i] EXCEPT !.y = @ + (e.items[i].speed * dt) \div TicksPerSec]
      e1 == [e EXCEPT !.items[i] = moved]
      inZone == moved.y >= canvasHeight - 50 * YScale
  IN IF inZone /\ checkCollision(e1, moved)
       THEN LET e2 == handleItemCollection(Log(e1, "collect", i, moved.type, moved.y), moved)
            IN [e2 EXCEPT !.items = RemoveAt(@, i)]
       ELSE IF moved.y > canvasHeight
         THEN LET e2 == Log(e1, "miss", i, moved.type, moved.y)
                  e3 == IF moved.type # "bomb" THEN loseLife(e2) ELSE e2
              IN [e3 EXCEPT !.items = RemoveAt(@, i)]
         ELSE e1

(* One iteration of the loop of update for index i (1-based). *)
ResolveItem(e, i, dt) ==
  LET moved == [e.items[i] EXCEPT !.y = @ + (e.items[i].speed * dt) \div TicksPerSec]
      e1 == [e EXCEPT !.items[i] = moved]
      inZone == moved.y >= canvasHeight - 50 * YScale /\ moved.y < canvasHeight + 20 * YScale
  IN IF inZone /\ checkCollision(e1, moved)
       THEN LET e2 == handleItemCollection(Log(e1, "collect", i, moved.type, moved.y), moved)
            IN [e2 EXCEPT !.items = RemoveAt(@, i)]
       ELSE IF moved.y > canvasHeight
         THEN LET e2 == Log(e1, "miss", i, moved.type, moved.y)
                  e3 == IF moved.type # "bomb" THEN loseLife(e2) ELSE e2
              IN [e3 EXCEPT !.items = RemoveAt(@, i)]
         ELSE e1

(* for (let i = items.length - 1; i >= 0; i--) *)
RECURSIVE ResolveFrom(_, _, _)
ResolveFrom(e, i, dt) ==
  IF i < 1 THEN e ELSE ResolveFrom(ResolveItem(e, i, dt), i - 1, dt)

(* update keeping the overshoot of the accumulator after a spawn *)
update_KeepOvershoot(e, dt, randLane, randType) ==
  LET t == e.spawnTimer + dt * (1000 \div TicksPerSec)
      e1 == IF t >= spawnInterval
              THEN [spawnItem(e, randLane, randType) EXCEPT !.spawnTimer = t - spawnInterval]
              ELSE [e EXCEPT !.spawnTimer = t]
  IN ResolveFrom(e1, Len(e1.items), dt)

update(e, dt, randLane, randType) ==
  LET t == e.spawnTimer + dt * (1000 \div TicksPerSec)
      e1 == IF t >= spawnInterval
              THEN [spawnItem(e, randLane, randType) EXCEPT !.spawnTimer = 0]
              ELSE [e EXCEPT !.spawnTimer = t]
  IN ResolveFrom(e1, Len(e1.items), dt)

(* Whether update(dt) spawns, and the random draws it then consumes (none
   when it does not spawn). *)
Spawns(e, dt) == e.spawnTimer + dt * (1000 \div TicksPerSec) >= spawnInterval
LaneDraws(e, dt) == IF Spawns(e, dt) THEN LaneRands ELSE {0}
TypeDraws(e, dt) == IF Spawns(e, dt) THEN TypeRands ELSE {0}

(* start not resetting lives *)
start_KeepLives(e) ==
  updateScoreUI([e EXCEPT !.isGameActive = TRUE, !.score = 0, !.level = 1,
                          !.items = << >>,
                          !.baseSpeed = InitialBaseSpeed,
                          !.totalLanes = InitialLanes,
                          !.basketWidthRatio = InitialBasketWidth])

(* start() up to and including updateScoreUI(); its call of gameLoop() is in
   the action Start. *)
start(e) ==
  updateScoreUI([e EXCEPT !.isGameActive = TRUE, !.score = 0, !.level = 1,
                          !.lives = InitialLives, !.items = << >>,
                          !.baseSpeed = InitialBaseSpeed,
                          !.totalLanes = InitialLanes,
                          !.basketWidthRatio = InitialBasketWidth])

(* setBasketPosition without the clamp at 1 *)
setBasketPosition_NoUpperClamp(e, xRatio) ==
  IF ~e.isGameActive THEN e
  ELSE [e EXCEPT !.basketX = Max(0, xRatio)]

(* setBasketPosition without the clamp at 0 *)
setBasketPosition_NoLowerClamp(e, xRatio) ==
  IF ~e.isGameActive THEN e
  ELSE [e EXCEPT !.basketX = Min(PosScale, xRatio)]

setBasketPosition(e, xRatio) ==
  IF ~e.isGameActive THEN e
  ELSE [e EXCEPT !.basketX = Max(0, Min(PosScale, xRatio))]

----------------------------------------------------------------------------
(* Observation of an operation's log *)

CountEv(log, name) == Cardinality({k \in 1..Len(log) : log[k].ev = name})
CountGoodMiss(log) ==
  Cardinality({k \in 1..Len(log) : log[k].ev = "miss" /\ log[k].type # "bomb"})
CountBombHit(log) ==
  Cardinality({k \in 1..Len(log) : log[k].ev = "collect" /\ log[k].type = "bomb"})

(* The engine's score, level and lives as an event-shaped record *)
Now(sc, lv, li) == [score |-> sc, level |-> lv, lives |-> li]

(* Before the first onScoreChange nothing has been delivered. *)
NothingShown == Now(-1, -1, -1)

(* What the score-changed callback has delivered last, after a log *)
LastShown(log, before) ==
  LET S == {k \in 1..Len(log) : log[k].ev = "onScoreChange"}
  IN IF S = {} THEN before
     ELSE LET k == CHOOSE m \in S : \A o \in S : o <= m
          IN Now(log[k].score, log[k].level, log[k].lives)

(* Writes an engine record back to the variables and accounts its log. *)
CommitEngine(e, name, newRun, arg) ==
  /\ score' = e.score
  /\ level' = e.level
  /\ lives' = e.lives
  /\ items' = e.items
  /\ isGameActive' = e.isGameActive
  /\ spawnTimer' = e.spawnTimer
  /\ baseSpeed' = e.baseSpeed
  /\ totalLanes' = e.totalLanes
  /\ basketWidthRatio' = e.basketWidthRatio
  /\ basketX' = e.basketX
  /\ op' = name
  /\ calls' = e.calls
  /\ endCount' = (IF newRun THEN 0 ELSE endCount) + CountEv(e.calls, "onGameEnd")
  /\ missedGood' = (IF newRun THEN 0 ELSE missedGood) + CountGoodMiss(e.calls)
  /\ bombsCollected' = (IF newRun THEN 0 ELSE bombsCollected) + CountBombHit(e.calls)
  /\ input' = arg
  /\ shown' = LastShown(e.calls, shown)

(* The same for an operation of the lives-based engine alone *)
Commit(e, name, newRun, arg) ==
  /\ CommitEngine(e, name, newRun, arg)
  /\ UNCHANGED hostVars

----------------------------------------------------------------------------
(* Initial state: the constructor *)

(* The page as loaded: Start enabled, Stop disabled, no key held, no
   keyboard loop *)
HostInit ==
  /\ result = FALSE
  /\ timeLimit = 0
  /\ basketPosition = "CENTER"
  /\ startBtnDisabled = FALSE
  /\ stopBtnDisabled = TRUE
  /\ keys = [ArrowLeft |-> FALSE, ArrowRight |-> FALSE]
  /\ kbFrames = 0

Init ==
  /\ score = 0
  /\ level = 1
  /\ lives = InitialLives
  /\ items = << >>
  /\ isGameActive = FALSE
  /\ spawnTimer = 0
  /\ baseSpeed = InitialBaseSpeed
  /\ totalLanes = InitialLanes
  /\ basketWidthRatio = InitialBasketWidth
  /\ basketX = InitialBasketX
  /\ pendingFrames = 0
  /\ op = "constructor"
  /\ calls = << >>
  /\ endCount = 0
  /\ missedGood = 0
  /\ bombsCollected = 0
  /\ input = 0
  /\ shown = NothingShown
  /\ HostInit

----------------------------------------------------------------------------
(* Actions *)

(* start(): resets the run, then runs gameLoop() synchronously: the engine is
   active, the elapsed time since lastTime is 0, update(0) runs and one
   animation-frame callback is scheduled. *)
Start ==
  /\ pendingFrames < MaxChains
  /\ \E rl \in LaneDraws(start(Engine), 0), rt \in TypeDraws(start(Engine), 0) :
       Commit(update(start(Engine), 0, rl, rt), "start", TRUE, 0)
  /\ pendingFrames' = pendingFrames + 1

(* stop() called by the host (Stop button) *)
Stop ==
  /\ endCount < MaxEnds
  /\ Commit(stop(Engine), "stop", FALSE, 0)
  /\ UNCHANGED pendingFrames

(* setBasketPosition(x) called by the control source *)
SetBasketPosition ==
  /\ \E x \in XInputs : Commit(setBasketPosition(Engine, x), "setBasketPosition", FALSE, x)
  /\ UNCHANGED pendingFrames

(* An animation-frame callback runs gameLoop(time) on an inactive engine: it
   returns at once and schedules nothing. *)
GameLoopInactive ==
  /\ pendingFrames > 0
  /\ ~isGameActive
  /\ Commit(Engine, "gameLoop", FALSE, 0)
  /\ pendingFrames' = pendingFrames - 1

(* An animation-frame callback runs gameLoop(time) on an active engine:
   update(deltaTime), then the next callback is scheduled. *)
GameLoopActive ==
  /\ pendingFrames > 0
  /\ isGameActive
  /\ score < MaxPlayScore
  /\ \E dt \in DeltaTicks :
       \E rl \in LaneDraws(Engine, dt), rt \in TypeDraws(Engine, dt) :
         Commit(update(Engine, dt, rl, rt), "gameLoop", FALSE, dt)
  /\ UNCHANGED pendingFrames

(* update(dt) called directly, bypassing gameLoop *)
Update ==
  /\ score < MaxApiPlayScore
  /\ endCount < MaxEnds
  /\ \E dt \in DeltaTicks :
       \E rl \in LaneDraws(Engine, dt), rt \in TypeDraws(Engine, dt) :
         Commit(update(Engine, dt, rl, rt), "update", FALSE, dt)
  /\ UNCHANGED pendingFrames

(* addScore(points) called directly, between frames with no item in flight *)
AddScore ==
  /\ items = << >>
  /\ \E p \in PointInputs :
       /\ score + p <= MaxScore
       /\ Commit(addScore(Engine, p), "addScore", FALSE, p)
  /\ UNCHANGED pendingFrames

Next == Start \/ Stop \/ SetBasketPosition \/ GameLoopInactive \/ GameLoopActive

Spec == Init /\ [][Next]_vars

(* The engine exercised method by method: update is called directly instead
   of through animation frames; a frame callback left over from start() is
   delivered only once the engine is inactive. *)
(* addScore(100) or addScore(300), the additions gameplay makes, called
   between frames with no item in flight, or with one item in flight when the
   addition raises the level *)
AddPoints ==
  /\ \E p \in GamePoints :
       /\ \/ items = << >>
          \/ Len(items) = 1 /\ (score + p) \div LevelThreshold > score \div LevelThreshold
       /\ score + p <= 2 * MaxScore
       /\ Commit(addScore(Engine, p), "addScore", FALSE, p)
  /\ UNCHANGED pendingFrames

(* The animation-frame callback on an active engine, played on up to the
   third level *)
GameLoopLevels ==
  /\ pendingFrames > 0
  /\ isGameActive
  /\ score < 2 * MaxPlayScore
  /\ \E dt \in DeltaTicks :
       \E rl \in LaneDraws(Engine, dt), rt \in TypeDraws(Engine, dt) :
         Commit(update(Engine, dt, rl, rt), "gameLoop", FALSE, dt)
  /\ UNCHANGED pendingFrames

NextApi == Start \/ Stop \/ SetBasketPosition \/ GameLoopInactive \/ Update \/ AddScore

SpecApi == Init /\ [][NextApi]_vars

(* Arguments of checkCollision: collector positions in steps of 0.01, the
   widths of levels 1 to 6, and the lane centers of 3, 4 and 10 lanes *)
CollisionBasketXs == {(k * PosScale) \div 100 : k \in 0..100}
CollisionWidths == {Max(MinBasketWidth, InitialBasketWidth - k * ((2 * PosScale) \div 100)) : k \in 0..5}
CollisionLanes == {3, 4, 10}
CollisionCenters ==
  {((2 * l + 1) * PosScale) \div (2 * n) : l \in 0..9, n \in CollisionLanes} \cap 0..PosScale

(* checkCollision alone: the engine holds one item in the collection zone,
   drawn with the collector position and width from the argument sets, and
   the test is applied to it. *)
InitCollision ==
  /\ score = 0
  /\ level = 1
  /\ lives = InitialLives
  /\ \E x \in CollisionCenters, t \in {"apple", "bomb"} :
       items = << [ laneIndex |-> 0, xRatio |-> x, y |-> canvasHeight - 50 * YScale,
                    type |-> t, speed |-> InitialBaseSpeed ] >>
  /\ isGameActive = TRUE
  /\ spawnTimer = 0
  /\ baseSpeed = InitialBaseSpeed
  /\ totalLanes = InitialLanes
  /\ basketWidthRatio \in CollisionWidths
  /\ basketX \in CollisionBasketXs
  /\ pendingFrames = 1
  /\ op = "start"
  /\ calls = << >>
  /\ endCount = 0
  /\ missedGood = 0
  /\ bombsCollected = 0
  /\ input = 0
  /\ shown = Now(0, 1, InitialLives)
  /\ HostInit

CheckCollision ==
  /\ result' = checkCollision(Engine, items[1])
  /\ op' = "checkCollision"
  /\ input' = 1
  /\ UNCHANGED << engineVars, pendingFrames, calls, endCount, missedGood,
                  bombsCollected, shown, timeLimit, basketPosition,
                  startBtnDisabled, stopBtnDisabled, keys, kbFrames >>

NextCollision == CheckCollision

SpecCollision == InitCollision /\ [][NextCollision]_vars

(* Gameplay carried to the higher levels: frames as in Spec, and the score
   additions of gameplay applied directly to reach the levels where the lane
   count grows and the basket width meets its floor. *)
NextLevels ==
  Start \/ Stop \/ SetBasketPosition \/ GameLoopInactive \/ GameLoopLevels \/ AddPoints

SpecLevels == Init /\ [][NextLevels]_vars

----------------------------------------------------------------------------
(* Properties *)

IsFrame(o) == o \in {"gameLoop", "update"}

(* The state seen right after event k of log L was handled up to the next
   logged event, or the final state fin if k is the last event. *)
After(L, k, fin) ==
  IF k < Len(L)
    THEN Now(L[k + 1].score, L[k + 1].level, L[k + 1].lives)
    ELSE fin

(* C1: onGameEnd is invoked exactly once per run, at the Active->Inactive
   transition: a frame invokes it at most once, and invokes it exactly when
   the frame takes the engine from active to inactive. *)
C1_GameEndOncePerFrame ==
  [][ IsFrame(op') =>
        /\ CountEv(calls', "onGameEnd") <= 1
        /\ (CountEv(calls', "onGameEnd") = 1) <=> (isGameActive /\ ~isGameActive') ]_vars

(* C2: stop() on an inactive engine changes no engine state and does not
   invoke onGameEnd. *)
C2_StopIdempotent ==
  [][ (op' = "stop" /\ ~isGameActive) =>
        (UNCHANGED engineVars /\ CountEv(calls', "onGameEnd") = 0) ]_vars

(* C3: update(dt) on an inactive engine changes no engine state and fires no
   callback. *)
C3_UpdateInactiveNoOp ==
  [][ (op' = "update" /\ ~isGameActive) =>
        (UNCHANGED engineVars /\ calls' = << >>) ]_vars

(* C4: nothing happens after onGameEnd has fired, until the next start():
   the score, level and lives at every onGameEnd invocation are those at the
   end of the same operation, and once onGameEnd has fired in a run no later
   operation of that run changes score, level or lives. *)
C4_NoEffectAfterEnd ==
  [][ /\ \A k \in 1..Len(calls') :
           calls'[k].ev = "onGameEnd" =>
             Now(calls'[k].score, calls'[k].level, calls'[k].lives) = Now(score', level', lives')
      /\ (endCount > 0 /\ op' # "start") =>
           (score' = score /\ level' = level /\ lives' = lives) ]_vars

(* C5: lives is never negative. *)
C5_LivesNonNegative == lives >= 0

(* C6: a frame in which a bomb is collected ends with lives = 0, the engine
   inactive and onGameEnd fired exactly once in that run. *)
C6_BombEndsRun ==
  [][ (IsFrame(op') /\ CountBombHit(calls') > 0) =>
        (lives' = 0 /\ ~isGameActive' /\ endCount' = 1) ]_vars

(* C7: every miss happens below the bottom edge, a missed apple or grape
   costs exactly one life, a missed bomb costs none, no miss changes score or
   level, and every missed item is removed: after the frame no item is below
   the bottom edge and the sequence has lost one item per collection or
   miss. *)
C7_MissEffect ==
  [][ IsFrame(op') =>
        /\ \A k \in 1..Len(calls') :
             calls'[k].ev = "miss" =>
               /\ calls'[k].y > canvasHeight
               /\ After(calls', k, Now(score', level', lives')) =
                    Now(calls'[k].score, calls'[k].level,
                        calls'[k].lives - (IF calls'[k].type # "bomb" THEN 1 ELSE 0))
        /\ \A j \in 1..Len(items') : items'[j].y <= canvasHeight
        /\ Len(items') = Len(items) + CountEv(calls', "spawn")
                           - CountEv(calls', "collect") - CountEv(calls', "miss") ]_vars

(* A frame has just missed a bomb and an apple or grape. *)
C7_Witness ==
  /\ op = "gameLoop"
  /\ \E k \in 1..Len(calls) : calls[k].ev = "miss" /\ calls[k].type = "bomb"
  /\ \E k \in 1..Len(calls) : calls[k].ev = "miss" /\ calls[k].type # "bomb"

(* C8: the frame in which the third apple or grape of a run is missed, no
   bomb having been collected, ends with lives = 0, the engine inactive and
   onGameEnd fired once in that run. *)
C8_ThreeMissesEndOnce ==
  [][ (IsFrame(op') /\ missedGood < 3 /\ missedGood' = 3 /\ bombsCollected' = 0) =>
        (lives' = 0 /\ ~isGameActive' /\ endCount' = 1) ]_vars

(* The third miss of a run has just happened, all three in one frame. *)
C8_Witness ==
  /\ op = "gameLoop"
  /\ missedGood = 3
  /\ bombsCollected = 0
  /\ CountGoodMiss(calls) = 3
  /\ endCount = 1

(* C9: level = floor(score / 1000) + 1 in every state. *)
C9_LevelOfScore == level = (score \div LevelThreshold) + 1

(* A single addition has crossed two thresholds. *)
C9_Witness == op = "addScore" /\ score = 2100 /\ level = 3

(* baseSpeed after k level-up multiplications by 1.1 *)
RECURSIVE SpeedAfter(_)
SpeedAfter(k) == IF k = 0 THEN InitialBaseSpeed ELSE (SpeedAfter(k - 1) * 11) \div 10

(* C10: baseSpeed has been multiplied by 1.1 exactly level - 1 times. *)
C10_SpeedPerLevel == baseSpeed = SpeedAfter(level - 1)

----------------------------------------------------------------------------
(* Properties of a frame's effect on the item sequence *)

(* The step runs update on the engine state of the unprimed variables. *)
FrameUpdate == op' = "update" \/ (op' = "gameLoop" /\ isGameActive)

(* The positions in log L of the item resolutions (collections and misses) *)
Resolved(L) == {k \in 1..Len(L) : L[k].ev \in {"collect", "miss"}}
ResolvedIdx(L) == {L[k].i : k \in Resolved(L)}

(* The indices 1..n outside R, ascending *)
RECURSIVE KeptIdx(_, _)
KeptIdx(n, R) ==
  IF n = 0 THEN << >>
  ELSE IF n \in R THEN KeptIdx(n - 1, R) ELSE Append(KeptIdx(n - 1, R), n)

(* An item after falling for dt *)
MovedItem(it, dt) == [it EXCEPT !.y = @ + (it.speed * dt) \div TicksPerSec]

PointsOf(type) == IF type = "apple" THEN ApplePoints ELSE GrapePoints

(* C11: no operation other than start() lowers score; start() sets it to 0. *)
C11_ScoreMonotone ==
  [][ /\ op' # "start" => score' >= score
      /\ op' = "start" => score' = 0 ]_vars

(* A run in which fruit was collected and then a bomb. *)
C11_Witness == op = "gameLoop" /\ score > 0 /\ bombsCollected > 0 /\ ~isGameActive

(* C12: start() from any state resets score, level, lives, items, lanes,
   basket width and base speed, activates the engine and fires
   onScoreChange exactly once, with (0, 1, 3), and nothing else. *)
C12_StartResets ==
  [][ op' = "start" =>
        /\ score' = 0 /\ level' = 1 /\ lives' = 3 /\ items' = << >>
        /\ totalLanes' = 3
        /\ basketWidthRatio' = (2 * PosScale) \div 10
        /\ baseSpeed' = 150 * YScale
        /\ isGameActive'
        /\ Len(calls') = 1
        /\ calls'[1].ev = "onScoreChange"
        /\ Now(calls'[1].score, calls'[1].level, calls'[1].lives) = Now(0, 1, 3) ]_vars

(* start() has just run on an engine a previous run left dirty, while the
   previous run's animation frame is still pending. *)
C12_Witness ==
  op = "start" /\ pendingFrames = 2 /\ basketX # InitialBasketX /\ spawnTimer > 0

(* C13: after start() the collector position is 0.5. *)
C13_StartResetsBasket == [][ op' = "start" => basketX' = InitialBasketX ]_vars

(* C14: setBasketPosition(x) on an inactive engine changes nothing; on an
   active engine it sets basketX to clamp(x, 0, 1) and changes nothing else;
   it never fires a callback. *)
C14_SetBasketPosition ==
  [][ op' = "setBasketPosition" =>
        /\ calls' = << >>
        /\ UNCHANGED << score, level, lives, items, isGameActive, spawnTimer,
                        baseSpeed, totalLanes, basketWidthRatio, pendingFrames, shown >>
        /\ isGameActive =>
             basketX' = (IF input' < 0 THEN 0 ELSE IF input' > PosScale THEN PosScale ELSE input')
        /\ ~isGameActive => basketX' = basketX ]_vars

(* An input above 1 has been clamped to 1, overwriting a position set before. *)
C14_Witness ==
  op = "setBasketPosition" /\ isGameActive /\ input > PosScale /\ basketX = PosScale

(* C15: the collector position and every item's horizontal center are in
   [0, 1]. *)
C15_PositionsInRange ==
  /\ basketX >= 0 /\ basketX <= PosScale
  /\ \A j \in 1..Len(items) : items[j].xRatio >= 0 /\ items[j].xRatio <= PosScale

(* A raw input below 0 has been applied with items in flight. *)
C15_Witness ==
  op = "setBasketPosition" /\ isGameActive /\ input < 0 /\ basketX = 0 /\ Len(items) > 0

(* C16: once onScoreChange has delivered anything, what it delivered last
   is the engine's current score, level and lives; until then the engine has
   its constructor values. *)
C16_ShownIsCurrent ==
  IF shown = NothingShown
    THEN Now(score, level, lives) = Now(0, 1, InitialLives) /\ ~isGameActive
    ELSE shown = Now(score, level, lives)

(* A frame has changed score and lives. *)
C16_Witness ==
  op = "gameLoop" /\ shown.score > 0 /\ shown.lives < InitialLives
    /\ \E k \in 1..Len(calls) : calls[k].ev = "miss" /\ calls[k].type # "bomb"

(* C17: an update spawns exactly one item and resets the accumulator to 0
   when the accumulator plus the elapsed milliseconds reaches 1500, and
   otherwise spawns nothing and keeps the sum; the accumulator is below 1500
   after every update. *)
C17_SpawnAccumulator ==
  [][ (FrameUpdate \/ op' = "start") =>
        LET t == spawnTimer + input' * (1000 \div TicksPerSec)
        IN /\ CountEv(calls', "spawn") = (IF t >= 1500 THEN 1 ELSE 0)
           /\ spawnTimer' = (IF t >= 1500 THEN 0 ELSE t)
           /\ spawnTimer' < 1500 ]_vars

(* A long frame has spawned one item and discarded the overshoot. *)
C17_Witness ==
  op = "gameLoop" /\ input = 22 /\ CountEv(calls, "spawn") = 1 /\ spawnTimer = 0

(* C18: in a frame the resolutions run from the last index down, each index
   at most once; the sequence loses exactly the resolved items; every item
   not resolved has been moved; and a collected apple or grape adds its
   points and costs no life. *)
C18_ResolvedOnce ==
  [][ FrameUpdate =>
        LET L == calls'
            n == Len(items) + CountEv(L, "spawn")
            K == Resolved(L)
        IN /\ \A k \in K : L[k].i >= 1 /\ L[k].i <= n
           /\ \A k1, k2 \in K : k1 < k2 => L[k1].i > L[k2].i
           /\ Len(items') = n - Cardinality(K)
           /\ \A j \in 1..Len(items) :
                j \notin ResolvedIdx(L) =>
                  \E m \in 1..Len(items') : items'[m] = MovedItem(items[j], input')
           /\ \A k \in K :
                (L[k].ev = "collect" /\ L[k].type # "bomb") =>
                  After(L, k, Now(score', level', lives')).lives = L[k].lives
                  /\ After(L, k, Now(score', level', lives')).score
                       = L[k].score + PointsOf(L[k].type) ]_vars

(* A frame has collected one item below the bottom edge and missed another. *)
C18_Witness ==
  /\ op = "gameLoop"
  /\ \E k \in 1..Len(calls) :
       calls[k].ev = "collect" /\ calls[k].type # "bomb" /\ calls[k].y > canvasHeight
  /\ \E k \in 1..Len(calls) : calls[k].ev = "miss"

(* C19 as stated: an item is collected only in the zone and never once its
   vertical position is beyond the bottom edge. *)
C19_NoCollectBelowEdge ==
  [][ FrameUpdate =>
        \A k \in 1..Len(calls') :
          calls'[k].ev = "collect" =>
            calls'[k].y >= canvasHeight - 50 * YScale /\ calls'[k].y <= canvasHeight ]_vars

(* C19 amended: an item is collected only while 550 <= y < 620, and an item
   that leaves the sequence with y >= 620 is a miss. *)
C19_CollectOnlyInZone ==
  [][ FrameUpdate =>
        \A k \in 1..Len(calls') :
          /\ calls'[k].ev = "collect" =>
               calls'[k].y >= canvasHeight - 50 * YScale /\ calls'[k].y < canvasHeight + 20 * YScale
          /\ calls'[k].ev = "miss" => calls'[k].y > canvasHeight ]_vars

(* An item has been collected between the bottom edge and 620. *)
C19_Witness ==
  /\ op = "gameLoop"
  /\ \E k \in 1..Len(calls) : calls[k].ev = "collect" /\ calls[k].y > canvasHeight

(* C20: after an update no item is below the bottom edge, and the sequence
   is exactly the unresolved items, moved, in their previous order, followed
   by the item spawned in this frame if it was not resolved. *)
C20_RemovedAndOrdered ==
  [][ FrameUpdate =>
        LET L == calls'
            n == Len(items) + CountEv(L, "spawn")
            keep == KeptIdx(n, ResolvedIdx(L))
        IN /\ \A j \in 1..Len(items') : items'[j].y <= canvasHeight
           /\ Len(items') = Len(keep)
           /\ \A m \in 1..Len(keep) :
                IF keep[m] <= Len(items)
                  THEN items'[m] = MovedItem(items[keep[m]], input')
                  ELSE items'[m].y = SpawnY + (items'[m].speed * input') \div TicksPerSec ]_vars

(* A frame has removed the oldest of three items and kept the two newer. *)
C20_Witness ==
  /\ op = "gameLoop"
  /\ Len(items) = 2
  /\ items[1] # items[2]
  /\ \E k \in 1..Len(calls) : calls[k].ev \in {"collect", "miss"} /\ calls[k].i = 1

----------------------------------------------------------------------------
(* Properties of the lifecycle and of the frame chain *)

(* C25: in a frame, every onGameEnd is immediately preceded by an
   onScoreChange that carries the same score, level and lives as the
   onGameEnd, that is, the terminal values. *)
C25_ScoreChangeBeforeEnd ==
  [][ IsFrame(op') =>
        \A k \in 1..Len(calls') :
          calls'[k].ev = "onGameEnd" =>
            /\ k > 1
            /\ calls'[k - 1].ev = "onScoreChange"
            /\ Now(calls'[k - 1].score, calls'[k - 1].level, calls'[k - 1].lives)
                 = Now(calls'[k].score, calls'[k].level, calls'[k].lives) ]_vars

(* A run with points on the board has just ended with the last life. *)
C25_Witness ==
  /\ op = "gameLoop" /\ ~isGameActive /\ score > 0 /\ lives = 0
  /\ bombsCollected = 0 /\ CountEv(calls, "onGameEnd") = 1

(* C26: only start() activates the engine; the engine becomes inactive only
   in an operation that runs stop(), and stop() leaves it inactive; stop()
   runs only in the host's stop call or, in a frame, right after a collected
   bomb or a missed apple or grape has been reported with lives <= 0. *)
C26_Lifecycle ==
  [][ /\ (~isGameActive /\ isGameActive') => op' = "start"
      /\ (isGameActive /\ ~isGameActive') => CountEv(calls', "onGameEnd") >= 1
      /\ CountEv(calls', "onGameEnd") >= 1 => ~isGameActive'
      /\ \A k \in 1..Len(calls') :
           calls'[k].ev = "onGameEnd" =>
             \/ op' = "stop"
             \/ /\ IsFrame(op')
                /\ k >= 3
                /\ calls'[k - 1].ev = "onScoreChange"
                /\ calls'[k - 1].lives <= 0
                /\ \/ calls'[k - 2].ev = "collect" /\ calls'[k - 2].type = "bomb"
                   \/ calls'[k - 2].ev = "miss" /\ calls'[k - 2].type # "bomb" ]_vars

(* A directly called update has ended a run by the third miss. *)
C26_Witness ==
  op = "update" /\ ~isGameActive /\ missedGood = 3 /\ endCount = 1 /\ lives = 0

(* C27: at most one gameLoop chain is live: an active engine has at most one
   animation-frame callback of gameLoop scheduled. *)
C27_SingleChain == isGameActive => pendingFrames <= 1

(* C29: the first frame after start() spawns an item only if its elapsed
   time alone reaches the spawn interval. *)
C29_FreshAccumulator ==
  [][ (op = "start" /\ op' = "gameLoop" /\ isGameActive /\ CountEv(calls', "spawn") > 0) =>
        input' * (1000 \div TicksPerSec) >= spawnInterval ]_vars

----------------------------------------------------------------------------
(* Properties of the difficulty parameters *)

(* C23: in gameplay totalLanes = 3 + floor((level - 1) / 2) and
   basketWidthRatio = max(0.1, 0.2 - 0.02 * (level - 1)), within [0.1, 0.2],
   in every state; and a step changes either value only if it is start() or
   raises the level. *)
C23_DifficultyOfLevel ==
  /\ [](/\ totalLanes = 3 + ((level - 1) \div 2)
        /\ 100 * basketWidthRatio
             = (IF 20 - 2 * (level - 1) < 10 THEN 10 ELSE 20 - 2 * (level - 1)) * PosScale
        /\ 10 * basketWidthRatio >= PosScale
        /\ 10 * basketWidthRatio <= 2 * PosScale)
  /\ [][ (totalLanes' # totalLanes \/ basketWidthRatio' # basketWidthRatio) =>
           (op' = "start" \/ (op' \in {"gameLoop", "addScore"} /\ level' > level)) ]_vars

(* The seventh level has been reached: six lanes, and the width held at its
   floor instead of 0.08. *)
C23_Witness ==
  op = "addScore" /\ level = 7 /\ totalLanes = 6 /\ basketWidthRatio = MinBasketWidth

(* C24: an item spawned in a frame has 0 <= lane < totalLanes,
   center (2 * lane + 1) / (2 * totalLanes) and speed
   baseSpeed * (1 + (level - 1) * 0.15) for the values at the start of that
   frame; an item that stays in flight over a frame keeps its lane, center,
   speed and type whatever the frame does to level, lanes, width and base
   speed; and no other operation but start() touches the items. *)
C24_FixedAtSpawn ==
  [][ /\ FrameUpdate =>
           LET L == calls'
               n == Len(items) + CountEv(L, "spawn")
               keep == KeptIdx(n, ResolvedIdx(L))
           IN \A m \in 1..Len(keep) :
                IF keep[m] <= Len(items)
                  THEN /\ items'[m].laneIndex = items[keep[m]].laneIndex
                       /\ items'[m].xRatio = items[keep[m]].xRatio
                       /\ items'[m].speed = items[keep[m]].speed
                       /\ items'[m].type = items[keep[m]].type
                  ELSE /\ items'[m].laneIndex >= 0
                       /\ items'[m].laneIndex < totalLanes
                       /\ items'[m].xRatio * 2 * totalLanes
                            = (2 * items'[m].laneIndex + 1) * PosScale
                       /\ items'[m].speed * 100 = baseSpeed * (100 + (level - 1) * 15)
      /\ (~FrameUpdate /\ op' # "start") => items' = items ]_vars

(* After the level rose to 3 and the lane count to 4 with an item in flight,
   a frame has spawned an item on the four-lane grid while the older item
   is still at its three-lane center with its level-2 or level-1 speed. *)
C24_Witness ==
  /\ op = "gameLoop" /\ level = 3 /\ totalLanes = 4 /\ Len(items) = 2
  /\ items[1].xRatio = (5 * PosScale) \div 6
  /\ items[2].xRatio = (7 * PosScale) \div 8
  /\ items[1].speed < items[2].speed

----------------------------------------------------------------------------
(* Properties of the collision test *)

(* C21: checkCollision(item) returns true exactly when
   |basketX - item.xRatio| < basketWidthRatio / 2 + 0.04 (compared here
   after multiplying by 200, so a distance equal to the bound is no hit); a
   collector at 0.5 of width 0.2 and an item at 0.55 collide; and the call
   changes no engine state. *)
C21_StrictOverlap ==
  [][ op' = "checkCollision" =>
        /\ result' <=> (200 * Abs(basketX - items[1].xRatio)
                          < 100 * basketWidthRatio + 8 * PosScale)
        /\ (/\ 2 * basketX = PosScale
            /\ 5 * basketWidthRatio = PosScale
            /\ 100 * items[1].xRatio = 55 * PosScale) => result'
        /\ UNCHANGED engineVars ]_vars

(* The test has just refused an item whose distance from the collector
   equals the bound. *)
C21_Witness ==
  /\ op = "checkCollision"
  /\ 200 * Abs(basketX - items[1].xRatio) = 100 * basketWidthRatio + 8 * PosScale
  /\ ~result

----------------------------------------------------------------------------
(* The timer-based revision: the three-lane GameEngine with a time limit
   instead of lives, and its host.  The engine record carries the host's
   buttons because the host's game-ended handler runs inside stop(). *)

TimerSeconds == 60
TimerCanvasHeight == 200 * YScale
TimerBaseSpeed == 100 * YScale
TimerSpawnY == -20 * YScale
TimerLanes == << "LEFT", "CENTER", "RIGHT" >>

(* Inputs of the timer-based revision *)
TimerDeltaTicks == {5, 50}
PoseLabels == {"Center", "right"}

(* Nested calls of the host's stop() the call stack holds: one more raises
   RangeError. *)
StackDepth == MaxEnds

(* String.prototype.toUpperCase / toLowerCase on the labels in use *)
ToUpperCase(str) ==
  CASE str \in {"left", "Left", "LEFT"} -> "LEFT"
    [] str \in {"center", "Center", "CENTER"} -> "CENTER"
    [] str \in {"right", "Right", "RIGHT"} -> "RIGHT"
    [] OTHER -> str

ToLowerCase(str) ==
  CASE str \in {"left", "Left", "LEFT"} -> "left"
    [] str \in {"center", "Center", "CENTER"} -> "center"
    [] str \in {"right", "Right", "RIGHT"} -> "right"
    [] OTHER -> str

TimerApp ==
  [ score |-> score, level |-> level, timeLimit |-> timeLimit, items |-> items,
    isGameActive |-> isGameActive, spawnTimer |-> spawnTimer,
    baseSpeed |-> baseSpeed, basketPosition |-> basketPosition,
    startBtnDisabled |-> startBtnDisabled, stopBtnDisabled |-> stopBtnDisabled,
    thrown |-> FALSE, calls |-> << >> ]

(* Math.floor(this.timeLimit) is what onScoreChange receives as time. *)
TimerLog(e, name, i, type, y) ==
  [e EXCEPT !.calls = Append(@, [ ev |-> name, i |-> i, type |-> type, y |-> y,
                                   score |-> e.score, level |-> e.level,
                                   time |-> e.timeLimit \div TicksPerSec ])]

(* GameEngine.stop() invokes onGameEnd, the host's handler; the handler
   shows the alert and calls the host's stop(); the host's stop() calls
   GameEngine.stop().  depth is the number of further host stop() calls the
   stack can hold; when it is exhausted the call throws, and the exception
   unwinds every caller, so no caller reaches its button assignments. *)
RECURSIVE timerStop(_, _), gameEndHandler(_, _), appStop(_, _)

timerStop(e, depth) ==
  gameEndHandler(TimerLog([e EXCEPT !.isGameActive = FALSE], "onGameEnd", 0, "-", 0), depth)

gameEndHandler(e, depth) == appStop(e, depth)

appStop(e, depth) ==
  IF depth = 0 THEN [e EXCEPT !.thrown = TRUE]
  ELSE LET e1 == timerStop(e, depth - 1)
       IN IF e1.thrown THEN e1
          ELSE [e1 EXCEPT !.startBtnDisabled = FALSE, !.stopBtnDisabled = TRUE]

timerAddScore(e, points) ==
  LET e1 == [e EXCEPT !.score = @ + points]
      newLevel == (e1.score \div LevelThreshold) + 1
      e2 == IF newLevel > e1.level
              THEN [e1 EXCEPT !.level = newLevel, !.baseSpeed = (@ * 12) \div 10]
              ELSE e1
  IN TimerLog(e2, "onScoreChange", 0, "-", 0)

timerHandleItemCollection(e, item) ==
  IF item.type = "bomb" THEN timerStop(e, StackDepth)
  ELSE IF item.type = "apple" THEN timerAddScore(e, ApplePoints)
  ELSE IF item.type = "grape" THEN timerAddScore(e, GrapePoints)
  ELSE e

timerCheckCollision(e, item) ==
  ToLowerCase(item.lane) = ToLowerCase(e.basketPosition)

timerSpawnItem(e, randLane, randType) ==
  LET item == [ lane |-> TimerLanes[LaneOf(randLane, Len(TimerLanes)) + 1],
                y |-> TimerSpawnY,
                type |-> TypeOf(randType),
                speed |-> (e.baseSpeed * (100 + (e.level - 1) * 20)) \div 100 ]
  IN TimerLog([e EXCEPT !.items = Append(@, item)], "spawn", Len(e.items) + 1,
              item.type, item.y)

(* One iteration of the loop of update; an exception thrown by the
   collection leaves the item in place. *)
timerResolveItem(e, i, dt) ==
  LET moved == [e.items[i] EXCEPT !.y = @ + (e.items[i].speed * dt) \div TicksPerSec]
      e1 == [e EXCEPT !.items[i] = moved]
  IN IF moved.y >= TimerCanvasHeight - 20 * YScale
       THEN IF timerCheckCollision(e1, moved)
              THEN LET e2 == timerHandleItemCollection(
                               TimerLog(e1, "collect", i, moved.type, moved.y), moved)
                   IN IF e2.thrown THEN e2 ELSE [e2 EXCEPT !.items = RemoveAt(@, i)]
              ELSE IF moved.y > TimerCanvasHeight
                THEN [TimerLog(e1, "miss", i, moved.type, moved.y)
                        EXCEPT !.items = RemoveAt(@, i)]
                ELSE e1
       ELSE e1

RECURSIVE timerResolveFrom(_, _, _)
timerResolveFrom(e, i, dt) ==
  IF i < 1 \/ e.thrown THEN e
  ELSE timerResolveFrom(timerResolveItem(e, i, dt), i - 1, dt)

(* update leaving the remaining time as subtracted *)
timerUpdate_NoClamp(e, dt, randLane, randType) ==
  LET t == e.timeLimit - dt
  IN IF t <= 0
       THEN timerStop([e EXCEPT !.timeLimit = t], StackDepth)
       ELSE LET e0 == [e EXCEPT !.timeLimit = t]
                acc == e0.spawnTimer + dt * (1000 \div TicksPerSec)
                e1 == IF acc >= spawnInterval
                        THEN [timerSpawnItem(e0, randLane, randType) EXCEPT !.spawnTimer = 0]
                        ELSE [e0 EXCEPT !.spawnTimer = acc]
            IN timerResolveFrom(e1, Len(e1.items), dt)

timerUpdate(e, dt, randLane, randType) ==
  LET t == e.timeLimit - dt
  IN IF t <= 0
       THEN timerStop([e EXCEPT !.timeLimit = 0], StackDepth)
       ELSE LET e0 == [e EXCEPT !.timeLimit = t]
                acc == e0.spawnTimer + dt * (1000 \div TicksPerSec)
                e1 == IF acc >= spawnInterval
                        THEN [timerSpawnItem(e0, randLane, randType) EXCEPT !.spawnTimer = 0]
                        ELSE [e0 EXCEPT !.spawnTimer = acc]
            IN timerResolveFrom(e1, Len(e1.items), dt)

TimerSpawns(e, dt) ==
  e.timeLimit - dt > 0 /\ e.spawnTimer + dt * (1000 \div TicksPerSec) >= spawnInterval
TimerLaneDraws(e, dt) == IF TimerSpawns(e, dt) THEN LaneRands ELSE {0}
TimerTypeDraws(e, dt) == IF TimerSpawns(e, dt) THEN TypeRands ELSE {0}

(* new GameEngine() *)
timerConstructor(e) ==
  [e EXCEPT !.score = 0, !.level = 1, !.timeLimit = TimerSeconds * TicksPerSec,
            !.items = << >>, !.isGameActive = FALSE, !.spawnTimer = 0,
            !.baseSpeed = TimerBaseSpeed, !.basketPosition = "CENTER"]

(* start() up to its call of gameLoop() *)
timerStart(e) ==
  [e EXCEPT !.isGameActive = TRUE, !.score = 0, !.level = 1,
            !.timeLimit = TimerSeconds * TicksPerSec, !.items = << >>,
            !.baseSpeed = TimerBaseSpeed]

onPoseDetected(e, poseLabel) ==
  IF ~e.isGameActive THEN e ELSE [e EXCEPT !.basketPosition = ToUpperCase(poseLabel)]

TimerCommit(e, name, newRun, arg) ==
  /\ score' = e.score
  /\ level' = e.level
  /\ timeLimit' = e.timeLimit
  /\ items' = e.items
  /\ isGameActive' = e.isGameActive
  /\ spawnTimer' = e.spawnTimer
  /\ baseSpeed' = e.baseSpeed
  /\ basketPosition' = e.basketPosition
  /\ startBtnDisabled' = e.startBtnDisabled
  /\ stopBtnDisabled' = e.stopBtnDisabled
  /\ op' = name
  /\ calls' = e.calls
  /\ endCount' = (IF newRun THEN 0 ELSE endCount) + CountEv(e.calls, "onGameEnd")
  /\ input' = arg
  /\ UNCHANGED << lives, totalLanes, basketWidthRatio, basketX, missedGood,
                  bombsCollected, shown, result, keys, kbFrames >>

(* The page of the timer-based revision as loaded *)
TimerInit ==
  /\ score = 0
  /\ level = 1
  /\ lives = InitialLives
  /\ items = << >>
  /\ isGameActive = FALSE
  /\ spawnTimer = 0
  /\ baseSpeed = TimerBaseSpeed
  /\ totalLanes = InitialLanes
  /\ basketWidthRatio = InitialBasketWidth
  /\ basketX = InitialBasketX
  /\ pendingFrames = 0
  /\ op = "load"
  /\ calls = << >>
  /\ endCount = 0
  /\ missedGood = 0
  /\ bombsCollected = 0
  /\ input = 0
  /\ shown = NothingShown
  /\ result = FALSE
  /\ timeLimit = TimerSeconds * TicksPerSec
  /\ basketPosition = "CENTER"
  /\ startBtnDisabled = FALSE
  /\ stopBtnDisabled = TRUE
  /\ keys = [ArrowLeft |-> FALSE, ArrowRight |-> FALSE]
  /\ kbFrames = 0

(* init(), on the Start button: disables Start, creates the engine, starts
   it (start() runs gameLoop() at once with no time elapsed and schedules
   the first frame) and enables Stop. *)
AppInit ==
  /\ ~startBtnDisabled
  /\ LET e0 == timerConstructor([TimerApp EXCEPT !.startBtnDisabled = TRUE])
         e1 == timerUpdate(timerStart(e0), 0, 0, 0)
     IN TimerCommit([e1 EXCEPT !.stopBtnDisabled = FALSE], "init", TRUE, 0)
  /\ pendingFrames' = pendingFrames + 1

(* stop() of the host, on the Stop button *)
AppStop ==
  /\ ~stopBtnDisabled
  /\ endCount < MaxEnds
  /\ TimerCommit(appStop(TimerApp, StackDepth), "stop", FALSE, 0)
  /\ UNCHANGED pendingFrames

(* handlePrediction passing a stabilized class name to the engine *)
OnPoseDetected ==
  /\ \E label \in PoseLabels :
       TimerCommit(onPoseDetected(TimerApp, label), "onPoseDetected", FALSE, 0)
  /\ UNCHANGED pendingFrames

(* An animation-frame callback on the inactive timer-based engine *)
TimerLoopInactive ==
  /\ pendingFrames > 0
  /\ ~isGameActive
  /\ TimerCommit(TimerApp, "gameLoop", FALSE, 0)
  /\ pendingFrames' = pendingFrames - 1

(* An animation-frame callback on the active timer-based engine:
   update(deltaTime), then the next callback is scheduled unless update
   threw. *)
TimerLoopActive ==
  /\ pendingFrames > 0
  /\ isGameActive
  /\ score < MaxApiPlayScore
  /\ \E dt \in TimerDeltaTicks :
       \E rl \in TimerLaneDraws(TimerApp, dt), rt \in TimerTypeDraws(TimerApp, dt) :
         LET e1 == timerUpdate(TimerApp, dt, rl, rt)
         IN /\ TimerCommit(e1, "gameLoop", FALSE, dt)
            /\ pendingFrames' = IF e1.thrown THEN pendingFrames - 1 ELSE pendingFrames

NextTimer == AppInit \/ AppStop \/ OnPoseDetected \/ TimerLoopInactive \/ TimerLoopActive

SpecTimer == TimerInit /\ [][NextTimer]_vars

(* C22: a frame of the timer-based engine first subtracts the elapsed time
   from the remaining time; if the result is <= 0 the remaining time becomes
   0, stop() runs and nothing else happens in the frame: no item is spawned,
   moved or resolved and the accumulator and the score are untouched;
   otherwise the remaining time is the difference.  The remaining time is
   never negative. *)
C22_TimerFirst ==
  /\ [](timeLimit >= 0)
  /\ [][ (op' = "gameLoop" /\ isGameActive) =>
           IF timeLimit - input' <= 0
             THEN /\ timeLimit' = 0
                  /\ ~isGameActive'
                  /\ Len(calls') >= 1
                  /\ \A k \in 1..Len(calls') : calls'[k].ev = "onGameEnd"
                  /\ items' = items
                  /\ spawnTimer' = spawnTimer
                  /\ score' = score /\ level' = level
             ELSE timeLimit' = timeLimit - input' ]_vars

(* The time has run out in a long frame that was due to spawn, with an item
   waiting in the collection zone. *)
C22_Witness ==
  /\ op = "gameLoop" /\ ~isGameActive /\ timeLimit = 0 /\ input = 50
  /\ spawnTimer = 1000
  /\ \E j \in 1..Len(items) : items[j].y >= TimerCanvasHeight - 20 * YScale

(* C28: in the host of the timer-based revision the end of a run is handled
   once: the step that takes the engine from active to inactive invokes the
   game-ended handler exactly once and leaves Start enabled and Stop
   disabled. *)
C28_EndHandledOnce ==
  [][ (isGameActive /\ ~isGameActive') =>
        (CountEv(calls', "onGameEnd") = 1 /\ ~startBtnDisabled' /\ stopBtnDisabled') ]_vars

----------------------------------------------------------------------------
(* Keyboard mode of main.js: the key listeners and the input loop
   loopKeyboard, next to the lives-based engine's own frames. *)

(* 0.01 * KEYBOARD_SPEED *)
KeyboardStep == (15 * PosScale) \div 1000

KeyCodes == {"ArrowLeft", "ArrowRight", "Space"}
KeyboardDeltaTicks == {22}

handleKeyDown(k, code) ==
  [k EXCEPT !.ArrowLeft = IF code = "ArrowLeft" THEN TRUE ELSE @,
            !.ArrowRight = IF code = "ArrowRight" THEN TRUE ELSE @]

handleKeyUp(k, code) ==
  [k EXCEPT !.ArrowLeft = IF code = "ArrowLeft" THEN FALSE ELSE @,
            !.ArrowRight = IF code = "ArrowRight" THEN FALSE ELSE @]

(* updateKeyboardInput with "else if" for the right key *)
updateKeyboardInput_ElseIf(e, k) ==
  LET currentX == e.basketX
      x1 == IF k.ArrowLeft THEN currentX - KeyboardStep
            ELSE IF k.ArrowRight THEN currentX + KeyboardStep ELSE currentX
  IN setBasketPosition(e, x1)

updateKeyboardInput(e, k) ==
  LET currentX == e.basketX
      x1 == IF k.ArrowLeft THEN currentX - KeyboardStep ELSE currentX
      x2 == IF k.ArrowRight THEN x1 + KeyboardStep ELSE x1
  IN setBasketPosition(e, x2)

(* loopKeyboard() up to its requestAnimationFrame *)
loopKeyboard(e, k) == IF ~e.isGameActive THEN e ELSE updateKeyboardInput(e, k)

(* initGame() in keyboard mode, on the Start button: disables Start, starts
   the engine (which runs its first gameLoop() at once), runs
   startKeyboardMode(): the key listeners are added and loopKeyboard() runs
   at once and schedules itself; then Stop is enabled. *)
InitGame ==
  /\ ~startBtnDisabled
  /\ pendingFrames < MaxChains
  /\ \E rl \in LaneDraws(start(Engine), 0), rt \in TypeDraws(start(Engine), 0) :
       CommitEngine(loopKeyboard(update(start(Engine), 0, rl, rt), keys),
                    "initGame", TRUE, 0)
  /\ pendingFrames' = pendingFrames + 1
  /\ kbFrames' = kbFrames + 1
  /\ startBtnDisabled' = TRUE
  /\ stopBtnDisabled' = FALSE
  /\ UNCHANGED << result, timeLimit, basketPosition, keys >>

(* stop() of main.js in keyboard mode, on the Stop button: stops the engine,
   cancels the animation frame of loopKeyboard, removes the key listeners,
   enables Start and disables Stop. *)
KeyboardStop ==
  /\ ~stopBtnDisabled
  /\ endCount < MaxEnds
  /\ CommitEngine(stop(Engine), "stop", FALSE, 0)
  /\ kbFrames' = 0
  /\ startBtnDisabled' = FALSE
  /\ stopBtnDisabled' = TRUE
  /\ UNCHANGED << pendingFrames, result, timeLimit, basketPosition, keys >>

(* keydown / keyup, delivered while the listeners are registered, that is
   from startKeyboardMode() to stop(), where Stop is enabled *)
HandleKeyDown ==
  /\ ~stopBtnDisabled
  /\ \E code \in KeyCodes : keys' = handleKeyDown(keys, code)
  /\ op' = "keydown"
  /\ calls' = << >>
  /\ input' = 0
  /\ UNCHANGED << engineVars, pendingFrames, endCount, missedGood, bombsCollected,
                  shown, result, timeLimit, basketPosition, startBtnDisabled,
                  stopBtnDisabled, kbFrames >>

HandleKeyUp ==
  /\ ~stopBtnDisabled
  /\ \E code \in KeyCodes : keys' = handleKeyUp(keys, code)
  /\ op' = "keyup"
  /\ calls' = << >>
  /\ input' = 0
  /\ UNCHANGED << engineVars, pendingFrames, endCount, missedGood, bombsCollected,
                  shown, result, timeLimit, basketPosition, startBtnDisabled,
                  stopBtnDisabled, kbFrames >>

(* An animation-frame callback of loopKeyboard on an inactive engine: it
   returns at once and schedules nothing. *)
LoopKeyboardInactive ==
  /\ kbFrames > 0
  /\ ~isGameActive
  /\ CommitEngine(loopKeyboard(Engine, keys), "loopKeyboard", FALSE, 0)
  /\ kbFrames' = kbFrames - 1
  /\ UNCHANGED << pendingFrames, result, timeLimit, basketPosition,
                  startBtnDisabled, stopBtnDisabled, keys >>

(* An animation-frame callback of loopKeyboard on an active engine: applies
   the keys and schedules the next callback. *)
LoopKeyboardActive ==
  /\ kbFrames > 0
  /\ isGameActive
  /\ CommitEngine(loopKeyboard(Engine, keys), "loopKeyboard", FALSE, 0)
  /\ UNCHANGED << pendingFrames, hostVars >>

(* The engine's own animation frame in keyboard mode, in long frames *)
KeyboardGameLoop ==
  /\ pendingFrames > 0
  /\ isGameActive
  /\ score < MaxApiPlayScore
  /\ \E dt \in KeyboardDeltaTicks :
       \E rl \in LaneDraws(Engine, dt), rt \in TypeDraws(Engine, dt) :
         Commit(update(Engine, dt, rl, rt), "gameLoop", FALSE, dt)
  /\ UNCHANGED pendingFrames

NextKeyboard ==
  \/ InitGame \/ KeyboardStop \/ HandleKeyDown \/ HandleKeyUp
  \/ LoopKeyboardInactive \/ LoopKeyboardActive
  \/ GameLoopInactive \/ KeyboardGameLoop

SpecKeyboard == Init /\ [][NextKeyboard]_vars

(* C30: a frame of the keyboard loop on an active engine moves the collector
   by -0.015 with only the left key held, by +0.015 with only the right key
   held and not at all with both or neither, the result clamped to [0, 1],
   so by at most 0.015; on an inactive engine it changes nothing and is not
   rescheduled; and no step that leaves the engine inactive changes the
   collector position. *)
C30_KeyboardStep ==
  [][ /\ (op' = "loopKeyboard" /\ isGameActive) =>
           LET move == (IF keys.ArrowRight THEN 1 ELSE 0) - (IF keys.ArrowLeft THEN 1 ELSE 0)
               target == basketX + (move * 15 * PosScale) \div 1000
           IN /\ basketX' = (IF target < 0 THEN 0
                             ELSE IF target > PosScale THEN PosScale ELSE target)
              /\ 1000 * Abs(basketX' - basketX) <= 15 * PosScale
              /\ kbFrames' = kbFrames
      /\ (op' = "loopKeyboard" /\ ~isGameActive) =>
           (basketX' = basketX /\ kbFrames' = kbFrames - 1)
      /\ (~isGameActive /\ ~isGameActive') => basketX' = basketX
      /\ basketX' >= 0 /\ basketX' <= PosScale ]_vars

(* With both keys held a frame of the loop has left the collector where it
   was, off the center and off the walls. *)
C30_Witness ==
  /\ op = "loopKeyboard" /\ isGameActive
  /\ keys.ArrowLeft /\ keys.ArrowRight
  /\ basketX > 0 /\ basketX < InitialBasketX

====
